---- MODULE Spec2Model ----
(***************************************************************************)
(* Model of the pulsar-api ingestion gateway: the CorrelationID middleware, *)
(* the schema validator, the topic resolver, and the two handlers          *)
(* PostEvent (POST /api/v1/events) and PostBatch (POST /api/v1/events/     *)
(* batch) of internal/api/events.go, together with Producer.Send and the   *)
(* wiring done by main.                                                    *)
(*                                                                         *)
(* One request is served at a time: the middleware runs, then the handler. *)
(* PostBatch is modelled one loop iteration per step, so the order of the  *)
(* broker sends and the fate of the items after a failing one are visible. *)
(***************************************************************************)
EXTENDS Integers, Sequences, FiniteSets, TLC

VARIABLES
    h,          \* the EventHandler built by main: [Producer, Topic, DryRun]
    goLoopVar,  \* scoping of a for-range variable in the build ("per-loop" before Go 1.22)
    pc,         \* "idle", "handler", "loop", "done"
    request,    \* the inbound request: [path, header, body]
    ctx,        \* gin context key "correlationId"
    respHeader, \* response header X-Correlation-ID
    uuidCount,  \* how many identifiers uuid.NewString has generated so far
    reqs,       \* PostBatch: the decoded []EventRequest
    idx,        \* PostBatch: how many items the range loop has consumed
    results,    \* PostBatch: the []BatchItemResult built so far
    reqVar,     \* PostBatch: the storage of the loop variable req, by address
    response,   \* the response written by the handler: [code, body]
    sends       \* the calls of Producer.Send made for this request, in order

vars == <<h, goLoopVar, pc, request, ctx, respHeader, uuidCount,
          reqs, idx, results, reqVar, response, sends>>

----------------------------------------------------------------------------
(* Bounds of the model *)

\* longest batch body enumerated
MaxBatch == 2
\* identifiers uuid.NewString may generate in one behaviour
MaxUUID == 2

----------------------------------------------------------------------------
(* HTTP status codes used by the handlers *)

StatusOK == 200
StatusCreated == 201
StatusBadRequest == 400
StatusInternalServerError == 500

----------------------------------------------------------------------------
(* Go values *)

\* a nil error and an error carrying a message
Nil == [isNil |-> TRUE, msg |-> ""]
errorsNew(m) == [isNil |-> FALSE, msg |-> m]

\* a map[string]interface{}: nil, or the key/value pairs
NilMap == [isNil |-> TRUE, kv |-> <<>>]
MapOf(f) == [isNil |-> FALSE, kv |-> f]

\* req.Payload[k] = _, ok : a lookup in a nil map finds nothing
HasKey(payload, k) == k \in DOMAIN payload.kv

EventRequest(t, s, p) == [EventType |-> t, SourceSystem |-> s, Payload |-> p]

----------------------------------------------------------------------------
(* Inputs *)

PayloadKeys == {"errorCode", "employerId", "dossierId"}
PayloadValues == {"1", "22"}
Payloads == {NilMap} \cup
            { MapOf(f) : f \in UNION { [K -> PayloadValues] : K \in SUBSET PayloadKeys } }

EventTypes == {"", "SIGNALITIEK_ERROR", "WAGE_ERROR", "SIGNALITIEK", "WAGE_ERROR_V2"}
SourceSystems == {"", "EverESSt"}

\* every JSON object a client may post to the single endpoint, as decoded
Events == { EventRequest(t, s, p) : t \in EventTypes, s \in SourceSystems, p \in Payloads }

\* the items batches are built from
BatchEvents ==
    { EventRequest("SIGNALITIEK_ERROR", "EverESSt",
                   MapOf([k \in {"errorCode", "employerId"} |-> IF k = "errorCode" THEN "1" ELSE "22"])),
      EventRequest("SIGNALITIEK_ERROR", "EverESSt", MapOf([k \in {"errorCode"} |-> "1"])),
      EventRequest("WAGE_ERROR", "EverESSt", MapOf([k \in {"dossierId"} |-> "1"])),
      EventRequest("WAGE_ERROR", "EverESSt", MapOf(<<>>)),
      EventRequest("SIGNALITIEK", "EverESSt", MapOf(<<>>)),
      EventRequest("WAGE_ERROR", "", MapOf([k \in {"dossierId"} |-> "1"])) }

Batches == UNION { [1..n -> BatchEvents] : n \in 0..MaxBatch }

Malformed == [kind |-> "malformed"]
SingleBodies == {Malformed} \cup { [kind |-> "object", ev |-> e] : e \in Events }
BatchBodies == {Malformed} \cup { [kind |-> "array", evs |-> b] : b \in Batches }

\* X-Correlation-ID as sent by the client ("" when the header is absent)
Headers == {"", "client-42"}

\* what the Pulsar client answers to one send: a message id, or an error
BrokerAnswers ==
    { [id |-> "12:0:0", err |-> Nil],
      [id |-> "12:1:0", err |-> Nil],
      [id |-> "", err |-> errorsNew("connection closed")] }

DefaultTopics == {"persistent://tenant/ns/default-topic"}

----------------------------------------------------------------------------
(* encoding/json *)

JSONString(s) == "\"" \o s \o "\""

\* json.Marshal writes the keys of a map in sorted order
SortedKeys == <<"dossierId", "employerId", "errorCode">>

RECURSIVE MarshalMembers(_, _, _)
MarshalMembers(kv, i, first) ==
    IF i > Len(SortedKeys) THEN ""
    ELSE IF SortedKeys[i] \in DOMAIN kv
         THEN (IF first THEN "" ELSE ",")
              \o JSONString(SortedKeys[i]) \o ":" \o JSONString(kv[SortedKeys[i]])
              \o MarshalMembers(kv, i + 1, FALSE)
         ELSE MarshalMembers(kv, i + 1, first)

MarshalMap(p) == IF p.isNil THEN "null" ELSE "{" \o MarshalMembers(p.kv, 1, TRUE) \o "}"

\* json.Marshal(req): the fields in declaration order, under their json names.
\* A request decoded from JSON holds only strings here, so err is always nil.
Marshal(req) ==
    [bytes |-> "{\"eventType\":" \o JSONString(req.EventType)
               \o ",\"sourceSystem\":" \o JSONString(req.SourceSystem)
               \o ",\"payload\":" \o MarshalMap(req.Payload) \o "}",
     err |-> Nil]

----------------------------------------------------------------------------
(* c.ShouldBindJSON: decoding, then the binding:"required" tags *)

RequiredTagError(field) ==
    "Key: 'EventRequest." \o field \o "' Error:Field validation for '"
    \o field \o "' failed on the 'required' tag"

\* the fields of req whose required tag fails, in declaration order
FailedFields(req) ==
    SelectSeq(<<"EventType", "SourceSystem", "Payload">>,
              LAMBDA f : \/ f = "EventType" /\ req.EventType = ""
                         \/ f = "SourceSystem" /\ req.SourceSystem = ""
                         \/ f = "Payload" /\ req.Payload.isNil)

RECURSIVE JoinLines(_)
JoinLines(ss) ==
    IF ss = <<>> THEN ""
    ELSE IF Len(ss) = 1 THEN ss[1]
    ELSE ss[1] \o "\n" \o JoinLines(Tail(ss))

ValidateStruct(req) ==
    LET ff == FailedFields(req) IN
    IF ff = <<>> THEN Nil
    ELSE errorsNew(JoinLines([i \in 1..Len(ff) |-> RequiredTagError(ff[i])]))

\* binding one EventRequest (PostEvent)
ShouldBindJSON(body) ==
    IF body.kind # "object"
    THEN [req |-> EventRequest("", "", NilMap),
          err |-> errorsNew("invalid character 'x' looking for beginning of value")]
    ELSE [req |-> body.ev, err |-> ValidateStruct(body.ev)]

\* binding a []EventRequest (PostBatch): every element is validated
ShouldBindJSONSlice(body) ==
    IF body.kind # "array"
    THEN [reqs |-> <<>>,
          err |-> errorsNew("invalid character 'x' looking for beginning of value")]
    ELSE LET bad == SelectSeq([i \in 1..Len(body.evs) |-> i],
                              LAMBDA i : ~ValidateStruct(body.evs[i]).isNil)
         IN [reqs |-> body.evs,
             err |-> IF bad = <<>> THEN Nil
                     ELSE errorsNew(JoinLines(
                            [j \in 1..Len(bad) |->
                               "[" \o ToString(bad[j] - 1) \o "]: "
                               \o ValidateStruct(body.evs[bad[j]]).msg]))]

----------------------------------------------------------------------------
(* Schema validator and topic resolver *)

eventTypeTopicMap ==
    [t \in {"SIGNALITIEK_ERROR", "WAGE_ERROR"} |->
        IF t = "SIGNALITIEK_ERROR"
        THEN "persistent://tenant/ns/signalitiek-errors"
        ELSE "persistent://tenant/ns/wage-errors"]

\* mutant: the second check of SIGNALITIEK_ERROR is forgotten
validateEventSchema_NoEmployerId(req) ==
    IF req.EventType = "SIGNALITIEK_ERROR"
    THEN IF ~HasKey(req.Payload, "errorCode")
         THEN errorsNew("payload.errorCode is required for SIGNALITIEK_ERROR")
         ELSE Nil
    ELSE IF req.EventType = "WAGE_ERROR"
    THEN IF ~HasKey(req.Payload, "dossierId")
         THEN errorsNew("payload.dossierId is required for WAGE_ERROR")
         ELSE Nil
    ELSE Nil

validateEventSchema(req) ==
    IF req.EventType = "SIGNALITIEK_ERROR"
    THEN IF ~HasKey(req.Payload, "errorCode")
         THEN errorsNew("payload.errorCode is required for SIGNALITIEK_ERROR")
         ELSE IF ~HasKey(req.Payload, "employerId")
         THEN errorsNew("payload.employerId is required for SIGNALITIEK_ERROR")
         ELSE Nil
    ELSE IF req.EventType = "WAGE_ERROR"
    THEN IF ~HasKey(req.Payload, "dossierId")
         THEN errorsNew("payload.dossierId is required for WAGE_ERROR")
         ELSE Nil
    ELSE Nil

\* mutant: the routing table is never consulted
resolveTopic_AlwaysDefault(req) == h.Topic

resolveTopic(req) ==
    IF req.EventType \in DOMAIN eventTypeTopicMap
    THEN eventTypeTopicMap[req.EventType]
    ELSE h.Topic

----------------------------------------------------------------------------
(* pulsar.Producer *)

\* mutant: the broker's error is wrapped before it is returned
Send_WrapErr(msg, ans) ==
    IF ~ans.err.isNil
    THEN [msgID |-> "", err |-> errorsNew("pulsar: " \o ans.err.msg)]
    ELSE [msgID |-> ans.id, err |-> Nil]

\* Producer.Send: ans is what p.producer.Send answered for msg
Send(msg, ans) ==
    IF ~ans.err.isNil
    THEN [msgID |-> "", err |-> ans.err]
    ELSE [msgID |-> ans.id, err |-> Nil]

\* a handler that panics (h.Producer is nil) is answered by gin.Recovery
PanicResponse == [code |-> StatusInternalServerError, body |-> <<>>]

----------------------------------------------------------------------------
(* main: configuration and wiring *)

\* mutant: the producer is created whatever the mode
mainProducer_Always(dryRun) == "producer"

\* main creates the Pulsar producer only when api.dryRun is false
mainProducer(dryRun) == IF ~dryRun THEN "producer" ELSE "nil"

NewEventHandler(producer, topic, dryRun) ==
    [Producer |-> producer, Topic |-> topic, DryRun |-> dryRun]

----------------------------------------------------------------------------
(* middleware.CorrelationID *)

uuidNewString(n) == "uuid-" \o ToString(n + 1)

\* mutant: the caller's header is ignored
CorrelationIDValue_AlwaysFresh(header, fresh) == fresh

\* the identifier of a request: the header when it is non-empty, else a fresh one
CorrelationIDValue(header, fresh) == IF header = "" THEN fresh ELSE header

GetCorrelationID == IF "correlationId" \in DOMAIN ctx THEN ctx.correlationId ELSE ""

----------------------------------------------------------------------------
(* JSON bodies written by c.JSON *)

\* a gin.H error body; details is left out where the handler gives none
ErrorBody(error, details, corrID) ==
    [status |-> "error", error |-> error, details |-> details, correlationId |-> corrID]

ErrorBodyNoDetails(error, corrID) ==
    [status |-> "error", error |-> error, correlationId |-> corrID]

\* EventResponse as JSON: messageId and event are omitempty
EventResponseJSON(resp) ==
    LET full == [status |-> resp.Status, topic |-> resp.Topic, bytes |-> resp.Bytes,
                 dryRun |-> resp.DryRun, correlationId |-> resp.CorrelationID,
                 messageId |-> resp.MessageID, event |-> Marshal(resp.Event).bytes]
        keys == {"status", "topic", "bytes", "dryRun", "correlationId", "event"}
                \cup (IF resp.MessageID # "" THEN {"messageId"} ELSE {})
    IN [k \in keys |-> full[k]]

\* BatchItemResult as JSON: topic, bytes, messageId, error and event are omitempty;
\* event is a pointer, followed when the response is written
BatchItemResultJSON(r, mem) ==
    LET full == [index |-> r.Index, status |-> r.Status, topic |-> r.Topic,
                 bytes |-> r.Bytes, messageId |-> r.MessageID, error |-> r.Error,
                 correlationId |-> r.CorrelationID, event |-> Marshal(mem[r.Event]).bytes]
        keys == {"index", "status", "correlationId", "event"}
                \cup (IF r.Topic # "" THEN {"topic"} ELSE {})
                \cup (IF r.Bytes # 0 THEN {"bytes"} ELSE {})
                \cup (IF r.MessageID # "" THEN {"messageId"} ELSE {})
                \cup (IF r.Error # "" THEN {"error"} ELSE {})
    IN [k \in keys |-> full[k]]

----------------------------------------------------------------------------
(* PostEvent *)

\* mutant: the dry-run answer is 201 Created like the live one
PostEventDryRun_Created(resp) ==
    [code |-> StatusCreated,
     body |-> EventResponseJSON([resp EXCEPT !.Status = "dry-run"]),
     sends |-> <<>>]

\* the h.DryRun branch
PostEventDryRun(resp) ==
    [code |-> StatusOK,
     body |-> EventResponseJSON([resp EXCEPT !.Status = "dry-run"]),
     sends |-> <<>>]

\* the live branch: h.Producer.Send and the two answers
PostEventSend(resp, payloadBytes, corrID, ans) ==
    IF h.Producer = "nil"
    THEN [code |-> PanicResponse.code, body |-> PanicResponse.body, sends |-> <<>>]
    ELSE LET s == Send(payloadBytes, ans)
             call == <<[item |-> 0, msg |-> payloadBytes, ans |-> ans]>>
         IN IF ~s.err.isNil
            THEN [code |-> StatusInternalServerError,
                  body |-> ErrorBody("failed sending to Pulsar", s.err.msg, corrID),
                  sends |-> call]
            ELSE [code |-> StatusCreated,
                  body |-> EventResponseJSON(
                             [resp EXCEPT !.Status = "sent", !.MessageID = s.msgID]),
                  sends |-> call]

\* the whole handler: what it writes and what it sends, for a body and a broker answer
PostEventOutcome(body, corrID, ans) ==
    LET b == ShouldBindJSON(body) IN
    IF ~b.err.isNil
    THEN [code |-> StatusBadRequest,
          body |-> ErrorBody("invalid request body", b.err.msg, corrID),
          sends |-> <<>>]
    ELSE
    LET req == b.req
        verr == validateEventSchema(req)
    IN
    IF ~verr.isNil
    THEN [code |-> StatusBadRequest,
          body |-> ErrorBody("schema validation failed", verr.msg, corrID),
          sends |-> <<>>]
    ELSE
    LET m == Marshal(req) IN
    IF ~m.err.isNil
    THEN [code |-> StatusInternalServerError,
          body |-> ErrorBodyNoDetails("internal serialization error", corrID),
          sends |-> <<>>]
    ELSE
    LET topic == resolveTopic(req)
        resp == [Status |-> "", Topic |-> topic, Bytes |-> Len(m.bytes),
                 DryRun |-> h.DryRun, CorrelationID |-> corrID,
                 MessageID |-> "", Event |-> req]
    IN IF h.DryRun
       THEN PostEventDryRun(resp)
       ELSE PostEventSend(resp, m.bytes, corrID, ans)

----------------------------------------------------------------------------
(* PostBatch *)

\* where the loop variable req lives in iteration i: one variable for the whole
\* loop before Go 1.22, a new one per iteration since
LoopVarAddr(i) == IF goLoopVar = "per-loop" THEN 0 ELSE i

\* mutant: one-based index
NewBatchItemResult_OneBased(i, itemCorr, addr) ==
    [Index |-> i + 1, Status |-> "", Topic |-> "", Bytes |-> 0, MessageID |-> "",
     Error |-> "", CorrelationID |-> itemCorr, Event |-> addr]

\* r := BatchItemResult{Index: i, CorrelationID: itemCorr, Event: &req}
NewBatchItemResult(i, itemCorr, addr) ==
    [Index |-> i, Status |-> "", Topic |-> "", Bytes |-> 0, MessageID |-> "",
     Error |-> "", CorrelationID |-> itemCorr, Event |-> addr]

\* the body of the loop for item i up to its append: the result r, the call of
\* Producer.Send it made (if any), and whether it panicked
BatchItemOutcome(i, req, addr, corrID, ans) ==
    LET itemCorr == corrID
        r == NewBatchItemResult(i, itemCorr, addr)
        verr == validateEventSchema(req)
    IN
    IF ~verr.isNil
    THEN [r |-> [r EXCEPT !.Status = "error",
                          !.Error = "schema validation failed: " \o verr.msg],
          sends |-> <<>>, panic |-> FALSE]
    ELSE
    LET m == Marshal(req) IN
    IF ~m.err.isNil
    THEN [r |-> [r EXCEPT !.Status = "error",
                          !.Error = "marshal error: " \o m.err.msg],
          sends |-> <<>>, panic |-> FALSE]
    ELSE
    LET topic == resolveTopic(req)
        r2 == [r EXCEPT !.Topic = topic, !.Bytes = Len(m.bytes)]
    IN
    IF h.DryRun
    THEN [r |-> [r2 EXCEPT !.Status = "dry-run"], sends |-> <<>>, panic |-> FALSE]
    ELSE IF h.Producer = "nil"
    THEN [r |-> r2, sends |-> <<>>, panic |-> TRUE]
    ELSE
    LET s == Send(m.bytes, ans)
        call == <<[item |-> i, msg |-> m.bytes, ans |-> ans]>>
    IN IF ~s.err.isNil
       THEN [r |-> [r2 EXCEPT !.Status = "error",
                              !.Error = "send error: " \o s.err.msg],
             sends |-> call, panic |-> FALSE]
       ELSE [r |-> [r2 EXCEPT !.Status = "sent", !.MessageID = s.msgID],
             sends |-> call, panic |-> FALSE]

\* mutant: after the first failed item the loop stops appending (break for continue)
BatchIteration_BreakOnError(i, req, addr, res, corrID, ans) ==
    IF \E j \in 1..Len(res) : res[j].Status = "error"
    THEN [results |-> res, sends |-> <<>>, panic |-> FALSE]
    ELSE LET o == BatchItemOutcome(i, req, addr, corrID, ans)
         IN [results |-> Append(res, o.r), sends |-> o.sends, panic |-> o.panic]

\* mutant: a send the broker refused is tried a second time
BatchIteration_RetryOnError(i, req, addr, res, corrID, ans) ==
    LET o == BatchItemOutcome(i, req, addr, corrID, ans)
        failed == o.sends # <<>> /\ o.r.Status = "error"
    IN [results |-> IF o.panic THEN res ELSE Append(res, o.r),
        sends |-> IF failed THEN o.sends \o o.sends ELSE o.sends,
        panic |-> o.panic]

\* one iteration: every path ends in results = append(results, r)
BatchIteration(i, req, addr, res, corrID, ans) ==
    LET o == BatchItemOutcome(i, req, addr, corrID, ans)
    IN [results |-> IF o.panic THEN res ELSE Append(res, o.r),
        sends |-> o.sends, panic |-> o.panic]

\* mutant: the summary reports "error" when every item failed
BatchStatus_Downgrade ==
    IF results # <<>> /\ \A j \in 1..Len(results) : results[j].Status = "error"
    THEN "error"
    ELSE IF h.DryRun THEN "dry-run" ELSE "sent"

\* status := "sent"; if h.DryRun { status = "dry-run" }
BatchStatus == IF h.DryRun THEN "dry-run" ELSE "sent"

BatchResponseJSON ==
    [status |-> BatchStatus,
     count |-> Len(results),
     dryRun |-> h.DryRun,
     results |-> [j \in 1..Len(results) |-> BatchItemResultJSON(results[j], reqVar)]]

----------------------------------------------------------------------------
(* The state machine *)

SinglePath == "/api/v1/events"
BatchPath == "/api/v1/events/batch"

NoRequest == [path |-> "", header |-> "", body |-> Malformed]
NoResponse == [code |-> 0, body |-> <<>>]

Init ==
    /\ h \in { NewEventHandler(mainProducer(d), t, d) : d \in BOOLEAN, t \in DefaultTopics }
    /\ goLoopVar \in {"per-loop", "per-iteration"}
    /\ pc = "idle"
    /\ request = NoRequest
    /\ ctx = <<>>
    /\ respHeader = ""
    /\ uuidCount = 0
    /\ reqs = <<>>
    /\ idx = 0
    /\ results = <<>>
    /\ reqVar = <<>>
    /\ response = NoResponse
    /\ sends = <<>>

\* A request arrives and the CorrelationID middleware runs: the identifier is put
\* in the context and in the response header, then c.Next() calls the handler.
CorrelationID ==
    /\ pc = "idle"
    /\ \E path \in {SinglePath, BatchPath}, header \in Headers :
         \E body \in (IF path = SinglePath THEN SingleBodies ELSE BatchBodies) :
            LET corrID == CorrelationIDValue(header, uuidNewString(uuidCount)) IN
            /\ header = "" => uuidCount < MaxUUID
            /\ request' = [path |-> path, header |-> header, body |-> body]
            /\ uuidCount' = IF header = "" THEN uuidCount + 1 ELSE uuidCount
            /\ ctx' = [correlationId |-> corrID]
            /\ respHeader' = corrID
    /\ pc' = "handler"
    /\ UNCHANGED <<h, goLoopVar, reqs, idx, results, reqVar, response, sends>>

\* POST /api/v1/events
PostEvent ==
    /\ pc = "handler"
    /\ request.path = SinglePath
    /\ \E ans \in BrokerAnswers :
         LET out == PostEventOutcome(request.body, GetCorrelationID, ans) IN
         /\ response' = [code |-> out.code, body |-> out.body]
         /\ sends' = out.sends
    /\ pc' = "done"
    /\ UNCHANGED <<h, goLoopVar, request, ctx, respHeader, uuidCount,
                   reqs, idx, results, reqVar>>

\* POST /api/v1/events/batch: binding the body, results := make(..., 0, len(reqs))
PostBatchBind ==
    /\ pc = "handler"
    /\ request.path = BatchPath
    /\ LET b == ShouldBindJSONSlice(request.body) IN
       IF ~b.err.isNil
       THEN /\ response' = [code |-> StatusBadRequest,
                            body |-> ErrorBody("invalid batch body", b.err.msg,
                                               GetCorrelationID)]
            /\ pc' = "done"
            /\ UNCHANGED <<reqs, idx, results>>
       ELSE /\ reqs' = b.reqs
            /\ idx' = 0
            /\ results' = <<>>
            /\ pc' = "loop"
            /\ UNCHANGED response
    /\ UNCHANGED <<h, goLoopVar, request, ctx, respHeader, uuidCount, reqVar, sends>>

\* one iteration of for i, req := range reqs
PostBatchItem ==
    /\ pc = "loop"
    /\ idx < Len(reqs)
    /\ \E ans \in BrokerAnswers :
         LET i == idx
             req == reqs[idx + 1]
             addr == LoopVarAddr(i)
             it == BatchIteration(i, req, addr, results, GetCorrelationID, ans)
         IN /\ reqVar' = [a \in DOMAIN reqVar \cup {addr} |->
                             IF a = addr THEN req ELSE reqVar[a]]
            /\ results' = it.results
            /\ sends' = sends \o it.sends
            /\ IF it.panic
               THEN /\ response' = PanicResponse
                    /\ pc' = "done"
               ELSE /\ pc' = "loop"
                    /\ UNCHANGED response
    /\ idx' = idx + 1
    /\ UNCHANGED <<h, goLoopVar, request, ctx, respHeader, uuidCount, reqs>>

\* after the loop: the summary and c.JSON(http.StatusOK, resp)
PostBatchRespond ==
    /\ pc = "loop"
    /\ idx = Len(reqs)
    /\ response' = [code |-> StatusOK, body |-> BatchResponseJSON]
    /\ pc' = "done"
    /\ UNCHANGED <<h, goLoopVar, request, ctx, respHeader, uuidCount,
                   reqs, idx, results, reqVar, sends>>

\* the response is written out and the request's state is gone
Finish ==
    /\ pc = "done"
    /\ pc' = "idle"
    /\ request' = NoRequest
    /\ ctx' = <<>>
    /\ respHeader' = ""
    /\ reqs' = <<>>
    /\ idx' = 0
    /\ results' = <<>>
    /\ reqVar' = <<>>
    /\ response' = NoResponse
    /\ sends' = <<>>
    /\ UNCHANGED <<h, goLoopVar, uuidCount>>

Next ==
    \/ CorrelationID
    \/ PostEvent
    \/ PostBatchBind
    \/ PostBatchItem
    \/ PostBatchRespond
    \/ Finish

Spec == Init /\ [][Next]_vars

----------------------------------------------------------------------------
(* Vocabulary of the properties: the rules as the specification states them *)

\* SchemaRule: the payload keys each event type requires
RequiredKeys(t) ==
    IF t = "SIGNALITIEK_ERROR" THEN {"errorCode", "employerId"}
    ELSE IF t = "WAGE_ERROR" THEN {"dossierId"}
    ELSE {}

MissingKeys(ev) == { k \in RequiredKeys(ev.EventType) : ~HasKey(ev.Payload, k) }
SchemaValid(ev) == MissingKeys(ev) = {}

\* a decoded event with its three required fields present
WellFormed(ev) == ev.EventType # "" /\ ev.SourceSystem # "" /\ ~ev.Payload.isNil

IsSingle == request.path = SinglePath
IsBatch == request.path = BatchPath

\* the single request carried a well-formed event
SingleBound == IsSingle /\ request.body.kind = "object" /\ WellFormed(request.body.ev)

\* the batch handler has answered 200 with its summary
BatchAnswered == pc = "done" /\ IsBatch /\ response.code = StatusOK

\* the broker answers given for item i (zero-based) of the request
AnswersFor(i) == { sends[j].ans : j \in { n \in 1..Len(sends) : sends[n].item = i } }

\* the status the Dispatch Engine gives one event on its own, under broker answers as
DispatchStatuses(ev, as) ==
    IF ~SchemaValid(ev) THEN {"error"}
    ELSE IF h.DryRun THEN {"dry-run"}
    ELSE { IF a.err.isNil THEN "sent" ELSE "error" : a \in as }

----------------------------------------------------------------------------
(* C1 *)

\* C1: in PostBatch a failure on one item never stops the items after it: while the
\* loop runs and when it has ended, every item consumed so far has its own result,
\* whose status is the one the item gets on its own in the same mode under the
\* broker answer it received; when the handler answers, every item was consumed.
C1_FailureIsolation ==
    (IsBatch /\ pc \in {"loop", "done"} /\ response.code \in {0, StatusOK}) =>
        /\ Len(results) = idx
        /\ BatchAnswered => idx = Len(reqs)
        /\ \A i \in 1..idx :
              /\ i <= Len(results)
              /\ results[i].Status \in DispatchStatuses(reqs[i], AnswersFor(i - 1))

\* a batch answered in live mode whose first item failed at the broker and whose
\* second item was sent
C1_Witness ==
    /\ BatchAnswered
    /\ Len(reqs) = 2
    /\ Len(sends) = 2
    /\ ~sends[1].ans.err.isNil
    /\ response.body.results[1].status = "error"
    /\ response.body.results[2].status = "sent"

----------------------------------------------------------------------------
(* C2 *)

\* C2: for a decoded batch of N events the response holds exactly N result entries,
\* entry i (zero-based) carries index i, and count is N, whatever items failed.
C2_CountAndIndex ==
    BatchAnswered =>
        /\ Len(response.body.results) = Len(reqs)
        /\ response.body.count = Len(reqs)
        /\ \A i \in 1..Len(response.body.results) :
              response.body.results[i].index = i - 1

\* a batch of two answered with the first item failed
C2_Witness ==
    /\ BatchAnswered
    /\ Len(reqs) = 2
    /\ response.body.results[1].status = "error"
    /\ response.body.count = 2

----------------------------------------------------------------------------
(* C3 *)

\* C3: with DryRun = true the producer is nil and Producer.Send is never called, and
\* every schema-valid event gets status "dry-run" with its topic and byte size and
\* no message identifier, in PostEvent and in every item of PostBatch.
C3_DryRunNeverSends ==
    h.DryRun =>
        /\ h.Producer = "nil"
        /\ sends = <<>>
        /\ (pc = "done" /\ SingleBound /\ SchemaValid(request.body.ev)) =>
              /\ response.body.status = "dry-run"
              /\ response.body.topic # ""
              /\ response.body.bytes = Len(Marshal(request.body.ev).bytes)
              /\ response.body.bytes > 0
              /\ "messageId" \notin DOMAIN response.body
        /\ BatchAnswered =>
              \A i \in 1..Len(reqs) :
                 SchemaValid(reqs[i]) =>
                    /\ i \in DOMAIN response.body.results
                    /\ LET o == response.body.results[i] IN
                       /\ o.status = "dry-run"
                       /\ "topic" \in DOMAIN o /\ o.topic # ""
                       /\ "bytes" \in DOMAIN o
                       /\ o.bytes = Len(Marshal(reqs[i]).bytes) /\ o.bytes > 0
                       /\ "messageId" \notin DOMAIN o

\* a dry-run batch answered with a schema-valid item reported "dry-run"
C3_Witness ==
    /\ h.DryRun
    /\ BatchAnswered
    /\ \E i \in 1..Len(reqs) :
          SchemaValid(reqs[i]) /\ response.body.results[i].status = "dry-run"

----------------------------------------------------------------------------
(* C4 *)

\* what the single endpoint reports of its one send, in live mode
SingleSendReported ==
    (pc = "done" /\ IsSingle /\ ~h.DryRun /\ sends # <<>>) =>
        LET a == sends[1].ans IN
        IF a.err.isNil
        THEN /\ response.body.status = "sent"
             /\ "messageId" \in DOMAIN response.body
             /\ response.body.messageId = a.id
        ELSE /\ response.body.status = "error"
             /\ response.body.details = a.err.msg

\* what the batch endpoint reports of each send, in live mode; prefix is what the
\* item's error holds in front of the broker's message
BatchSendsReported(prefix) ==
    (BatchAnswered /\ ~h.DryRun) =>
        \A j \in 1..Len(sends) :
           LET a == sends[j].ans
               o == response.body.results[sends[j].item + 1]
           IN IF a.err.isNil
              THEN /\ o.status = "sent"
                   /\ "messageId" \in DOMAIN o
                   /\ o.messageId = a.id
              ELSE /\ o.status = "error"
                   /\ "error" \in DOMAIN o
                   /\ o.error = prefix \o a.err.msg

\* in live mode every schema-valid event is handed to the broker
LiveValidIsSent ==
    ~h.DryRun =>
        /\ (pc = "done" /\ SingleBound /\ SchemaValid(request.body.ev)) => Len(sends) = 1
        /\ BatchAnswered =>
              \A i \in 1..Len(reqs) : SchemaValid(reqs[i]) => AnswersFor(i - 1) # {}

\* C4 as stated: in live mode a successful send gives status "sent" with the
\* broker's identifier, and a failed send gives status "error" whose error detail
\* is the broker's message verbatim, in the single and in the batch endpoint.
C4_Original_VerbatimInBoth ==
    /\ LiveValidIsSent
    /\ SingleSendReported
    /\ BatchSendsReported("")

\* C4 amended: as stated for the single endpoint (details is the broker's message
\* verbatim); in the batch endpoint the item's error is "send error: " followed by
\* the broker's message verbatim.
C4_SendOutcomeReported ==
    /\ LiveValidIsSent
    /\ SingleSendReported
    /\ BatchSendsReported("send error: ")

\* a live batch answered with one item sent and one item refused by the broker
C4_Witness ==
    /\ BatchAnswered
    /\ ~h.DryRun
    /\ \E j, k \in 1..Len(sends) : sends[j].ans.err.isNil /\ ~sends[k].ans.err.isNil

----------------------------------------------------------------------------
(* C5 *)

\* the single request was accepted: well-formed and schema-valid
SingleAccepted == SingleBound /\ SchemaValid(request.body.ev)
SingleSendOK == ~h.DryRun /\ sends # <<>> /\ sends[1].ans.err.isNil
SingleSendFailed == ~h.DryRun /\ sends # <<>> /\ ~sends[1].ans.err.isNil

\* C5 as stated: 201 exactly when the event was sent or accepted in dry-run mode,
\* 400 exactly when the body is malformed or schema validation fails, 500 exactly
\* when serialization or the send fails, and no other code.
C5_Original_201OnDryRun ==
    (pc = "done" /\ IsSingle) =>
        /\ response.code \in {StatusCreated, StatusBadRequest, StatusInternalServerError}
        /\ response.code = StatusCreated <=>
              (SingleAccepted /\ (h.DryRun \/ SingleSendOK))
        /\ response.code = StatusBadRequest <=> ~SingleAccepted
        /\ response.code = StatusInternalServerError <=>
              (SingleAccepted /\ SingleSendFailed)

\* C5 amended: 201 exactly when the event was sent, 200 exactly when it was accepted
\* in dry-run mode, 400 exactly when the body is malformed or schema validation
\* fails, 500 exactly when the send fails, and no other code.
C5_StatusCodes ==
    (pc = "done" /\ IsSingle) =>
        /\ response.code \in {StatusOK, StatusCreated, StatusBadRequest,
                              StatusInternalServerError}
        /\ response.code = StatusCreated <=> (SingleAccepted /\ SingleSendOK)
        /\ response.code = StatusOK <=> (SingleAccepted /\ h.DryRun)
        /\ response.code = StatusBadRequest <=> ~SingleAccepted
        /\ response.code = StatusInternalServerError <=>
              (SingleAccepted /\ SingleSendFailed)

\* a schema-valid event accepted by the single endpoint in dry-run mode
C5_Witness ==
    /\ pc = "done"
    /\ IsSingle
    /\ h.DryRun
    /\ SingleAccepted
    /\ response.body.status = "dry-run"

----------------------------------------------------------------------------
(* C6 *)

\* the events the validator has been applied to in this request
Validated ==
    IF pc = "done" /\ SingleBound THEN {request.body.ev}
    ELSE IF IsBatch /\ pc \in {"loop", "done"} THEN { reqs[i] : i \in 1..idx }
    ELSE {}

\* the same event type and payload keys, every value and the source replaced
SameKeys(ev) ==
    EventRequest(ev.EventType, "other",
                 [isNil |-> ev.Payload.isNil,
                  kv |-> [k \in DOMAIN ev.Payload.kv |-> "0"]])

\* C6: validateEventSchema fails exactly when a required key of the event's type is
\* absent, its message names a missing key, every other type passes with any
\* payload, and the result depends only on the type and the set of payload keys;
\* the handlers report exactly this result.
C6_ValidateEventSchema ==
    /\ \A ev \in Validated :
          LET err == validateEventSchema(ev) IN
          /\ err.isNil <=> MissingKeys(ev) = {}
          /\ ~err.isNil =>
                \E k \in MissingKeys(ev) :
                   err.msg = "payload." \o k \o " is required for " \o ev.EventType
          /\ ev.EventType \notin {"SIGNALITIEK_ERROR", "WAGE_ERROR"} => err.isNil
          /\ validateEventSchema(SameKeys(ev)) = err
    /\ (pc = "done" /\ SingleBound) =>
          (response.body.status = "error" /\ response.code = StatusBadRequest)
             <=> MissingKeys(request.body.ev) # {}
    /\ (IsBatch /\ pc \in {"loop", "done"} /\ response.code \in {0, StatusOK}) =>
          \A i \in 1..Len(results) :
             MissingKeys(reqs[i]) # {} <=>
                \E k \in MissingKeys(reqs[i]) :
                   results[i].Error = "schema validation failed: payload." \o k
                                      \o " is required for " \o reqs[i].EventType

\* a SIGNALITIEK_ERROR event holding errorCode but no employerId was refused
C6_Witness ==
    /\ pc = "done"
    /\ SingleBound
    /\ request.body.ev.EventType = "SIGNALITIEK_ERROR"
    /\ HasKey(request.body.ev.Payload, "errorCode")
    /\ ~HasKey(request.body.ev.Payload, "employerId")
    /\ response.body.details = "payload.employerId is required for SIGNALITIEK_ERROR"

----------------------------------------------------------------------------
(* C7 *)

----------------------------------------------------------------------------
(* C8 *)

\* the identifier the middleware must have fixed for the request in flight
ExpectedCorrelationID ==
    IF request.header # "" THEN request.header ELSE uuidNewString(uuidCount - 1)

\* the identifier is fixed before the handler runs, is the header or a fresh one,
\* never changes while the request is served, and is on the response header
CorrelationFixed ==
    pc \in {"handler", "loop", "done"} =>
        /\ GetCorrelationID = ExpectedCorrelationID
        /\ respHeader = ExpectedCorrelationID
        /\ ExpectedCorrelationID # ""
        /\ request.header = "" =>
              \A n \in 0..(uuidCount - 2) : uuidNewString(n) # ExpectedCorrelationID

\* every item of a batch response carries the identifier of the request
ItemsCarryCorrelation ==
    BatchAnswered =>
        \A i \in 1..Len(response.body.results) :
           /\ "correlationId" \in DOMAIN response.body.results[i]
           /\ response.body.results[i].correlationId = ExpectedCorrelationID

BodyCarriesCorrelation ==
    /\ "correlationId" \in DOMAIN response.body
    /\ response.body.correlationId = ExpectedCorrelationID

\* C8 as stated: the identifier is the header or a fresh one, is set on the response
\* header, and appears in the correlationId field of every response body and of
\* every item of a batch.
C8_Original_EveryBody ==
    /\ CorrelationFixed
    /\ ItemsCarryCorrelation
    /\ pc = "done" => BodyCarriesCorrelation

\* C8 amended: the identifier is the header or a fresh one, is set on the response
\* header, and appears in the correlationId field of every PostEvent response body,
\* of the 400 body of PostBatch, and of every item of a batch; the 200 body of
\* PostBatch has no correlationId field of its own.
C8_CorrelationID ==
    /\ CorrelationFixed
    /\ ItemsCarryCorrelation
    /\ (pc = "done" /\ ~BatchAnswered) => BodyCarriesCorrelation
    /\ BatchAnswered => "correlationId" \notin DOMAIN response.body

\* a batch of two sent with the header set, answered, both items carrying it
C8_Witness ==
    /\ BatchAnswered
    /\ request.header # ""
    /\ Len(response.body.results) = 2
    /\ response.body.results[2].correlationId = request.header
    /\ respHeader = request.header

----------------------------------------------------------------------------
(* C9 *)

\* RoutingTable as the specification states it: exact match, else the default
RoutedTopic(ev) ==
    IF ev.EventType = "SIGNALITIEK_ERROR" THEN "persistent://tenant/ns/signalitiek-errors"
    ELSE IF ev.EventType = "WAGE_ERROR" THEN "persistent://tenant/ns/wage-errors"
    ELSE h.Topic

\* the events of the request in flight
Submitted ==
    IF IsSingle /\ request.body.kind = "object" THEN {request.body.ev}
    ELSE IF IsBatch /\ request.body.kind = "array"
         THEN { request.body.evs[i] : i \in 1..Len(request.body.evs) }
    ELSE {}

----------------------------------------------------------------------------
(* C10 *)

\* C10: the top-level status of a batch response is "dry-run" in dry-run mode and
\* "sent" otherwise, whatever the items' outcomes, the empty batch included.
C10_BatchTopStatus ==
    BatchAnswered =>
        /\ response.body.status = (IF h.DryRun THEN "dry-run" ELSE "sent")
        /\ response.body.dryRun = h.DryRun

\* a live batch of two answered "sent" although both items failed
C10_Witness ==
    /\ BatchAnswered
    /\ ~h.DryRun
    /\ Len(reqs) = 2
    /\ \A i \in 1..2 : response.body.results[i].status = "error"
    /\ response.body.status = "sent"

----------------------------------------------------------------------------
(* C11 *)

\* the positions (one-based) of the schema-valid items among the first k of the batch
ValidPositions(k) == SelectSeq([i \in 1..k |-> i], LAMBDA i : SchemaValid(reqs[i]))

\* C11: in live mode PostBatch calls Producer.Send exactly once for each item that
\* passes validation and serialization and never for one that fails, in input
\* order and without retrying a failed send: at every point of the loop and when
\* the handler has answered, the payloads handed to the broker are the
\* serializations of the valid items consumed so far, in submission order.
C11_SendsAreValidSubsequence ==
    (IsBatch /\ pc \in {"loop", "done"} /\ response.code \in {0, StatusOK} /\ ~h.DryRun) =>
        LET valid == ValidPositions(idx) IN
        /\ BatchAnswered => idx = Len(reqs)
        /\ Len(sends) = Len(valid)
        /\ \A j \in 1..Len(sends) :
              /\ j <= Len(valid)
              /\ sends[j].item = valid[j] - 1
              /\ sends[j].msg = Marshal(reqs[valid[j]]).bytes
        /\ \A j, k \in 1..Len(sends) : j < k => sends[j].item < sends[k].item

\* a live batch answered whose first item was refused by the broker, whose second
\* item failed validation, and for which the broker was called once only
C11_Witness ==
    /\ BatchAnswered
    /\ ~h.DryRun
    /\ Len(reqs) = 2
    /\ SchemaValid(reqs[1])
    /\ ~SchemaValid(reqs[2])
    /\ Len(sends) = 1
    /\ ~sends[1].ans.err.isNil
    /\ sends[1].item = 0

====
